---- MODULE Spec2Model ----
(***************************************************************************)
(* Model of process_data.py: the telematics ingestion / validation /       *)
(* aggregation pipeline.                                                   *)
(*                                                                         *)
(* Encoding of values.  Every cell is a tuple so that cells of different   *)
(* kinds can be compared:                                                  *)
(*   <<>>           a missing value (empty CSV cell, NaN, NaT, None)       *)
(*   <<n>>          a number (in a CSV file: the numeral n)                *)
(*   <<"str", s>>   a non-numeric text s (in memory: a Python str)         *)
(*   <<"numstr", n>> in memory only: the Python str spelling the numeral n *)
(*   <<"ts", t>>    a well-formed date-time text, t seconds after the      *)
(*                  origin of the time axis                                *)
(*   <<"q", a, b>>  the real number a / b (b > 0)                          *)
(* A data frame is [columns, index, rows]: the column labels in order, the *)
(* row labels in order, and one function column -> cell per row.           *)
(***************************************************************************)
EXTENDS Integers, Sequences, FiniteSets, TLC

VARIABLES
  csv,               \* the input file: [header, rows], rows of cells by position
  CHUNK_SIZE,        \* the chunk size of this run
  disk,              \* the output directory: [cleaned, rejected, metrics]
  pc,                \* where the script is
  reader,            \* the number of input rows the reader has consumed
  first_chunk, IS_TRIP_LEVEL,
  chunks, chunk, total_rows_read, validated_rows, rejected_rows,
  cleaned_df, rejected_df,
  final_metrics_df   \* final_metrics_df, or trip_metrics_df on the trip-level path

vars == <<csv, CHUNK_SIZE, disk, pc, reader, first_chunk, IS_TRIP_LEVEL,
          chunks, chunk, total_rows_read, validated_rows, rejected_rows,
          cleaned_df, rejected_df, final_metrics_df>>

\* ------------------------------------------------------------------ bounds
MaxRows == 3
MaxHeaders == 3

\* ----------------------------------------------------------- configuration
GAP_THRESHOLD_SEC == 300

REQUIRED_COLUMNS ==
  <<"trip_id", "timestamp", "speed_kmph", "battery_voltage", "battery_current",
    "soc_percent", "motor_temp_c", "cell_temp_c">>

\* The keys of VALID_RANGES in their insertion order.
SensorCols ==
  <<"speed_kmph", "battery_voltage", "battery_current", "soc_percent",
    "motor_temp_c", "cell_temp_c">>

VALID_RANGES ==
  [speed_kmph      |-> <<0, 250>>,
   battery_voltage |-> <<200, 1000>>,
   battery_current |-> <<-500, 500>>,
   soc_percent     |-> <<0, 100>>,
   motor_temp_c    |-> <<-40, 200>>,
   cell_temp_c     |-> <<-40, 100>>]

COLUMN_ALIASES ==
  [trip_id         |-> {"trip_id", "tripid", "vehicle_id", "vehicleid"},
   timestamp       |-> {"timestamp", "time", "utc_timestamp", "datetime"},
   speed_kmph      |-> {"speed_kmph", "speed", "vehicle_speed"},
   battery_voltage |-> {"battery_voltage", "batteryvoltage", "voltage"},
   battery_current |-> {"battery_current", "batterycurrent", "current"},
   soc_percent     |-> {"soc_percent", "soc", "state_of_charge"},
   motor_temp_c    |-> {"motor_temp_c", "motortemp", "motor_temperature"},
   cell_temp_c     |-> {"cell_temp_c", "celltemp", "cell_temperature"}]

\* The keys of COLUMN_ALIASES in their insertion order.
CanonicalOrder == REQUIRED_COLUMNS

\* ------------------------------------------------------------ small helpers
NaN == <<>>

Range(s) == {s[i] : i \in DOMAIN s}

Min2(a, b) == IF a <= b THEN a ELSE b

HasDuplicates(s) == \E i, j \in DOMAIN s : i < j /\ s[i] = s[j]

\* Position of the first occurrence of x in the sequence s (x occurs in s).
PosOf(s, x) == CHOOSE i \in DOMAIN s : s[i] = x /\ \A j \in 1..(i - 1) : s[j] # x

RECURSIVE Flatten(_)
Flatten(ss) == IF ss = <<>> THEN <<>> ELSE Head(ss) \o Flatten(Tail(ss))

EmptyFrame == [columns |-> <<>>, index |-> <<>>, rows |-> <<>>]

isna(v) == v = NaN

\* df[mask]: the rows at the positions in keep, labels kept.
TakeRows(df, keep) ==
  LET pos == SelectSeq([i \in DOMAIN df.rows |-> i], LAMBDA i : i \in keep)
  IN [columns |-> df.columns,
      index   |-> [k \in DOMAIN pos |-> df.index[pos[k]]],
      rows    |-> [k \in DOMAIN pos |-> df.rows[pos[k]]]]

\* pd.concat(frames, ignore_index=True) of frames with the same columns.
concat(frames) ==
  LET rows == Flatten([k \in DOMAIN frames |-> frames[k].rows])
  IN [columns |-> IF frames = <<>> THEN <<>> ELSE frames[1].columns,
      index   |-> [k \in DOMAIN rows |-> k - 1],
      rows    |-> rows]

\* df.rename(columns = f) for frames whose new labels are distinct.
rename(df, f) ==
  LET newcols == [i \in DOMAIN df.columns |-> f[df.columns[i]]]
  IN [columns |-> newcols,
      index   |-> df.index,
      rows    |-> [k \in DOMAIN df.rows |->
                    [c \in Range(newcols) |->
                      df.rows[k][df.columns[PosOf(newcols, c)]]]]]

\* ------------------------------------------------------------------ helpers
\* str.strip().str.lower() on the header spellings of the model's inputs.
StripLower(h) ==
  CASE h = " Trip_ID " -> "trip_id"
    [] h = "TIME"      -> "time"
    [] h = "Speed "    -> "speed"
    [] h = "Speed_Avg" -> "speed_avg"
    [] OTHER           -> h

normalize_columns(df) ==
  rename(df, [c \in Range(df.columns) |-> StripLower(c)])

\* The rename_map built by resolve_columns for the column labels cols: each
\* canonical name takes the first column (in column order) that is one of
\* its aliases; every other column keeps its label.
RenameMap(cols) ==
  [c \in Range(cols) |->
    LET canon == {k \in Range(CanonicalOrder) : c \in COLUMN_ALIASES[k]}
    IN IF canon = {} THEN c
       ELSE LET canonical == CHOOSE k \in canon : TRUE
            IN IF \A j \in 1..(PosOf(cols, c) - 1) : cols[j] \notin COLUMN_ALIASES[canonical]
               THEN canonical ELSE c]

\* The column labels after df.rename(columns = rename_map).
ResolvedColumns(cols) == [i \in DOMAIN cols |-> RenameMap(cols)[cols[i]]]

resolve_columns(df) == rename(df, RenameMap(df.columns))

\* pd.to_numeric(errors="coerce") on one value: a number stays, a str that
\* spells a numeral becomes that number, anything else becomes NaN.
coerce_float(v) ==
  IF Len(v) = 1 THEN v
  ELSE IF Len(v) = 2 /\ v[1] = "numstr" THEN <<v[2]>>
  ELSE NaN

TRIP_LEVEL_SIGNALS ==
  {"duration_minutes", "distance_km", "speed_avg", "speed_max", "energy_consumed_kwh"}

is_trip_level_schema(df) == TRIP_LEVEL_SIGNALS \cap Range(df.columns) # {}

\* ----------------------------------------------------------------- reading
\* pd.read_csv(CSV_PATH, chunksize=...) gives no dtype: every chunk infers
\* each column's type from its own cells.  A column of numerals and empty
\* cells is numeric; a column holding any other text is an object column, in
\* which a numeral stays the str that spells it.
NumericColumn(lines, j) == \A k \in DOMAIN lines : Len(lines[k][j]) <= 1

ParseCell(cell, numeric) ==
  IF Len(cell) = 1 /\ ~numeric THEN <<"numstr", cell[1]>> ELSE cell

\* The chunk of at most size rows that follows the first pos rows of file.
read_chunk(file, pos, size) ==
  LET n     == Min2(size, Len(file.rows) - pos)
      lines == SubSeq(file.rows, pos + 1, pos + n)
  IN [columns |-> file.header,
      index   |-> [k \in 1..n |-> pos + k - 1],
      rows    |-> [k \in 1..n |->
                    [c \in Range(file.header) |->
                      ParseCell(lines[k][PosOf(file.header, c)],
                                NumericColumn(lines, PosOf(file.header, c)))]]]

\* list(reader) once pos rows are consumed: the remaining chunks in order.
RECURSIVE read_rest(_, _, _)
read_rest(file, pos, size) ==
  IF pos >= Len(file.rows) THEN <<>>
  ELSE <<read_chunk(file, pos, size)>> \o read_rest(file, pos + size, size)

\* -------------------------------------------------------------- validation
\* pd.to_datetime(errors="coerce", utc=True) on one value of the inputs'
\* kinds: a well-formed date-time text becomes its instant (seconds), a
\* missing value or any other text becomes NaT.  (The well-formed texts of
\* the inputs all have one format.)
to_datetime(v) == IF Len(v) = 2 /\ v[1] = "ts" THEN <<v[2]>> ELSE NaN

\* Series.between(lo, hi), inclusive; a comparison with NaN is False.
between(v, lo, hi) == v # NaN /\ lo <= v[1] /\ v[1] <= hi

\* Lines 143-146: a required column absent from the chunk is added as NaN.
\* (The script appends the missing columns in the iteration order of a set;
\* here they are appended in the order REQUIRED_COLUMNS lists them.)
Backfill(df) ==
  LET missing == SelectSeq(REQUIRED_COLUMNS, LAMBDA c : c \notin Range(df.columns))
      cols    == df.columns \o missing
  IN [columns |-> cols,
      index   |-> df.index,
      rows    |-> [k \in DOMAIN df.rows |->
                    [c \in Range(cols) |->
                      IF c \in Range(df.columns) THEN df.rows[k][c] ELSE NaN]]]

StatusCols == <<"rejection_reasons", "salvage_notes", "validation_status">>

\* Lines 163-167 on one row: the sensor loop, in VALID_RANGES order.
RECURSIVE Salvage(_, _)
Salvage(r, i) ==
  IF i > Len(SensorCols) THEN r
  ELSE LET col     == SensorCols[i]
           invalid == ~between(r[col], VALID_RANGES[col][1], VALID_RANGES[col][2])
       IN Salvage(IF invalid
                  THEN [r EXCEPT ![col] = NaN,
                                 !["salvage_notes"] = @ \o "|" \o col \o "_out_of_range"]
                  ELSE r,
                  i + 1)

\* Line 170 with any(axis=1) in place of all(axis=1).
AllSensorsNaNAny(r) == \E i \in DOMAIN SensorCols : isna(r[SensorCols[i]])

\* Line 170: every sensor column of the row is NaN.
AllSensorsNaN(r) == \A i \in DOMAIN SensorCols : isna(r[SensorCols[i]])

\* Lines 148-175 on one row of a chunk whose required columns exist.
ValidateRow(row, cols) ==
  LET r0 == [c \in Range(cols) |->
              IF c = "rejection_reasons" \/ c = "salvage_notes" THEN ""
              ELSE IF c = "validation_status" THEN "valid"
              ELSE IF c = "timestamp" THEN to_datetime(row[c])
              ELSE IF c \in Range(SensorCols) THEN coerce_float(row[c])
              ELSE row[c]]
      r1 == IF isna(r0["trip_id"])
            THEN [r0 EXCEPT !["rejection_reasons"] = @ \o "|missing_trip_id"] ELSE r0
      r2 == IF isna(r1["timestamp"])
            THEN [r1 EXCEPT !["rejection_reasons"] = @ \o "|invalid_timestamp"] ELSE r1
      r3 == Salvage(r2, 1)
      all_nan == AllSensorsNaN(r3)
      r4 == IF all_nan
            THEN [r3 EXCEPT !["rejection_reasons"] = @ \o "|all_sensors_invalid"] ELSE r3
      rejected_mask == r4["rejection_reasons"] # ""
  IN IF rejected_mask THEN [r4 EXCEPT !["validation_status"] = "rejected"] ELSE r4

\* The loop body up to line 175: the chunk with every row classified.
ValidateChunk(df) ==
  LET b    == Backfill(resolve_columns(normalize_columns(df)))
      cols == b.columns \o SelectSeq(StatusCols, LAMBDA c : c \notin Range(b.columns))
  IN [columns |-> cols,
      index   |-> b.index,
      rows    |-> [k \in DOMAIN b.rows |-> ValidateRow(b.rows[k], cols)]]

\* The loop body raises (a column label selected twice gives a frame, not a
\* series) when renaming leaves two columns with one canonical label.
ChunkRaises(df) ==
  HasDuplicates(ResolvedColumns(normalize_columns(df).columns))

RejectedPositions(df) ==
  {k \in DOMAIN df.rows : df.rows[k]["rejection_reasons"] # ""}

\* Line 177 keeping only the valid rows that needed no salvage.
ValidPartUnsalvaged(df) ==
  TakeRows(df, {k \in DOMAIN df.rows \ RejectedPositions(df) :
                  df.rows[k]["salvage_notes"] = ""})

\* Line 177: chunk[~rejected_mask].
ValidPart(df) == TakeRows(df, DOMAIN df.rows \ RejectedPositions(df))

\* Line 178: chunk[rejected_mask].
RejectedPart(df) == TakeRows(df, RejectedPositions(df))

\* ------------------------------------------------------------- aggregation
\* g.sort_values("timestamp"): ascending; rows with equal timestamps keep
\* their order (the sort is an insertion sort for groups this small).
RECURSIVE InsertByTime(_, _)
InsertByTime(sorted, r) ==
  IF sorted = <<>> THEN <<r>>
  ELSE IF sorted[Len(sorted)]["timestamp"][1] <= r["timestamp"][1]
       THEN Append(sorted, r)
       ELSE Append(InsertByTime(SubSeq(sorted, 1, Len(sorted) - 1), r),
                   sorted[Len(sorted)])

RECURSIVE sort_values(_)
sort_values(rows) ==
  IF rows = <<>> THEN <<>>
  ELSE InsertByTime(sort_values(SubSeq(rows, 1, Len(rows) - 1)), rows[Len(rows)])

\* Line 195: diff().dt.total_seconds().clip(lower=0); the first is NaN.
dt_sec(g, i) ==
  IF i = 1 THEN NaN
  ELSE LET d == g[i]["timestamp"][1] - g[i - 1]["timestamp"][1]
       IN <<IF d < 0 THEN 0 ELSE d>>

\* Line 196 with >= in place of >.
is_gap_inclusive(g, i) == dt_sec(g, i) # NaN /\ dt_sec(g, i)[1] >= GAP_THRESHOLD_SEC

\* Line 196: a comparison with NaN is False.
is_gap(g, i) == dt_sec(g, i) # NaN /\ dt_sec(g, i)[1] > GAP_THRESHOLD_SEC

fillna0(v) == IF v = NaN THEN 0 ELSE v[1]

RECURSIVE SumOver(_, _)
SumOver(f, n) == IF n = 0 THEN 0 ELSE f[n] + SumOver(f, n - 1)

\* Line 199 with each interval weighted by the speed of the sample before it.
DistanceNumeratorEarlier(g) ==
  SumOver([i \in DOMAIN g |->
            IF i = Len(g) THEN 0
            ELSE fillna0(g[i]["speed_kmph"]) * fillna0(dt_sec(g, i + 1))], Len(g))

\* Line 199: the numerator of distance_km, whose denominator is 3600.
DistanceNumerator(g) ==
  SumOver([i \in DOMAIN g |-> fillna0(g[i]["speed_kmph"]) * fillna0(dt_sec(g, i))], Len(g))

NotNa(g, col) == {i \in DOMAIN g : g[i][col] # NaN}

\* Series.max / min / mean with skipna=True; NaN when every value is NaN.
col_max(g, col) ==
  IF NotNa(g, col) = {} THEN NaN
  ELSE <<CHOOSE v \in {g[i][col][1] : i \in NotNa(g, col)} :
           \A i \in NotNa(g, col) : g[i][col][1] <= v>>

col_min(g, col) ==
  IF NotNa(g, col) = {} THEN NaN
  ELSE <<CHOOSE v \in {g[i][col][1] : i \in NotNa(g, col)} :
           \A i \in NotNa(g, col) : v <= g[i][col][1]>>

col_mean(g, col) ==
  IF NotNa(g, col) = {} THEN NaN
  ELSE <<"q", SumOver([i \in DOMAIN g |-> fillna0(g[i][col])], Len(g)),
              Cardinality(NotNa(g, col))>>

MetricsColumns ==
  <<"trip_id", "rows", "duration_minutes", "gap_count", "max_speed", "avg_speed",
    "distance_km", "max_motor_temp", "max_cell_temp", "min_battery_voltage",
    "max_current">>

\* Lines 193-213: the metrics of one group (the group's rows in frame order).
TripMetrics(trip_id, group) ==
  LET g == sort_values(group)
      duration_sec == SumOver([i \in DOMAIN g |-> fillna0(dt_sec(g, i))], Len(g))
  IN [trip_id             |-> trip_id,
      rows                |-> <<Len(g)>>,
      duration_minutes    |-> <<"q", duration_sec, 60>>,
      gap_count           |-> <<Cardinality({i \in DOMAIN g : is_gap(g, i)})>>,
      max_speed           |-> col_max(g, "speed_kmph"),
      avg_speed           |-> col_mean(g, "speed_kmph"),
      distance_km         |-> <<"q", DistanceNumerator(g), 3600>>,
      max_motor_temp      |-> col_max(g, "motor_temp_c"),
      max_cell_temp       |-> col_max(g, "cell_temp_c"),
      min_battery_voltage |-> col_min(g, "battery_voltage"),
      max_current         |-> col_max(g, "battery_current")]

\* The order in which groupby (sort=True) yields keys of mixed Python types:
\* numbers first, by value, then strs in text order.  The strs of the inputs
\* are one-digit numerals and the letters "A" < "B".
KeyRank(key) ==
  IF Len(key) = 1 THEN <<0, key[1]>>
  ELSE IF key[1] = "numstr" THEN <<1, key[2]>>
  ELSE <<2, IF key[2] = "A" THEN 1 ELSE 2>>

KeyBefore(a, b) ==
  \/ KeyRank(a)[1] < KeyRank(b)[1]
  \/ KeyRank(a)[1] = KeyRank(b)[1] /\ KeyRank(a)[2] < KeyRank(b)[2]

RECURSIVE SortKeys(_)
SortKeys(keys) ==
  IF keys = {} THEN <<>>
  ELSE LET k == CHOOSE x \in keys : \A y \in keys \ {x} : KeyBefore(x, y)
       IN <<k>> \o SortKeys(keys \ {k})

\* Lines 189-213: one metrics record per group of cleaned_df.groupby("trip_id").
Aggregate(cleaned) ==
  IF cleaned.rows = <<>> THEN <<>>
  ELSE LET keys == SortKeys({cleaned.rows[i]["trip_id"] : i \in DOMAIN cleaned.rows})
       IN [k \in DOMAIN keys |->
            TripMetrics(keys[k],
                        SelectSeq(cleaned.rows, LAMBDA r : r["trip_id"] = keys[k]))]

\* Line 215: pd.DataFrame(metrics); an empty list gives a frame with no columns.
MetricsFrame(metrics) ==
  [columns |-> IF metrics = <<>> THEN <<>> ELSE MetricsColumns,
   index   |-> [k \in DOMAIN metrics |-> k - 1],
   rows    |-> metrics]

\* -------------------------------------------------------- trip-level path
TripLevelColumns ==
  <<"trip_id", "duration_minutes", "avg_speed", "distance_km", "max_speed",
    "max_motor_temp", "max_cell_temp", "energy_consumed_kwh">>

\* The input column each trip-level metrics column is read from.
TripLevelSource(c) ==
  CASE c = "avg_speed"      -> "speed_avg"
    [] c = "max_speed"      -> "speed_max"
    [] c = "max_motor_temp" -> "motor_temp_max"
    [] c = "max_cell_temp"  -> "cell_temp_max"
    [] OTHER                -> c

\* Lines 99-106: all chunks concatenated, resolved, null trip_id dropped.
TripLevelFrame(first, rest) ==
  LET all == <<first>> \o [k \in DOMAIN rest |-> normalize_columns(rest[k])]
      df  == resolve_columns(IF Len(all) = 1 THEN first ELSE concat(all))
  IN TakeRows(df, {k \in DOMAIN df.rows : ~isna(df.rows[k]["trip_id"])})

\* Lines 108-117: df.get(col) is None for an absent column.
TripLevelMetrics(df) ==
  [columns |-> TripLevelColumns,
   index   |-> df.index,
   rows    |-> [k \in DOMAIN df.rows |->
                 [c \in Range(TripLevelColumns) |->
                   IF TripLevelSource(c) \in Range(df.columns)
                   THEN df.rows[k][TripLevelSource(c)] ELSE NaN]]]

\* Lines 104-109 raise when no column resolves to trip_id, or two do.
TripLevelRaises(cols) ==
  \/ "trip_id" \notin Range(ResolvedColumns(cols))
  \/ HasDuplicates(ResolvedColumns(cols))

\* ------------------------------------------------------------------ output
\* The text to_csv writes for one value: a str is written as its characters,
\* so the str spelling a numeral is written as that numeral.  (The model does
\* not tell the float 9.0 from the integer 9; both are written as 9.)
CsvText(c, v) ==
  IF c \in Range(StatusCols) THEN v
  ELSE IF Len(v) = 2 /\ v[1] = "numstr" THEN <<v[2]>>
  ELSE v

\* df.to_csv(path, index=False): the header line and one line per row.
to_csv(df) ==
  [run    |-> "current",
   header |-> df.columns,
   rows   |-> [k \in DOMAIN df.rows |->
                [j \in DOMAIN df.columns |-> CsvText(df.columns[j], df.rows[k][df.columns[j]])]]]

\* A file left by an earlier run; what it holds is not looked at.
PriorFile == [run |-> "prior", header |-> <<>>, rows |-> <<>>]

\* ------------------------------------------------------------------ inputs
Empty == <<>>

HdrRaw == REQUIRED_COLUMNS
HdrAlias == <<" Trip_ID ", "TIME", "Speed ", "voltage", "note">>
HdrDup == <<"trip_id", "timestamp", "speed", "speed_kmph">>
HdrTrip == <<"trip_id", "duration_minutes", "distance_km", "speed_avg", "speed_max">>
HdrTripAlias == <<"tripid", "Speed_Avg", "motor_temp_max">>
HdrNoTrip == <<"distance_km", "speed_avg">>

\* Sensor readings that are all in range, with the given speed cell.
Readings(speed) == <<speed, <<400>>, <<10>>, <<80>>, <<60>>, <<30>>>>

\* Raw rows for inputs of several rows: valid rows of trips "A" and 9 at
\* times 0, 300, 600 and 901, a salvaged row, and one row per reject reason.
RawPool ==
  {<<<<"str", "A">>, <<"ts", 0>>>>   \o Readings(<<50>>),
   <<<<"str", "A">>, <<"ts", 600>>>> \o Readings(<<60>>),
   <<<<"str", "A">>, <<"ts", 300>>>> \o Readings(Empty),
   <<<<"str", "A">>, <<"ts", 901>>>> \o Readings(<<251>>),
   <<<<9>>,          <<"ts", 0>>>>   \o Readings(<<50>>),
   <<Empty,          <<"ts", 0>>>>   \o Readings(<<50>>),
   <<<<"str", "A">>, <<"str", "bad">>>> \o Readings(<<50>>),
   <<<<"str", "A">>, <<"ts", 600>>, <<300>>, Empty, <<"str", "x">>, <<101>>, <<-41>>, <<101>>>>}

\* One raw row per combination of: trip_id empty or not, timestamp
\* well-formed or malformed, and each sensor cell null, in range or
\* out of range (v picks the empty cell, the lower bound and the value below
\* it, or a text, the upper bound and the value above it).
SensorCell(col, kind, v) ==
  CASE kind = "null" -> IF v = 0 THEN Empty ELSE <<"str", "x">>
    [] kind = "in"   -> <<VALID_RANGES[col][v + 1]>>
    [] kind = "out"  -> IF v = 0 THEN <<VALID_RANGES[col][1] - 1>>
                        ELSE <<VALID_RANGES[col][2] + 1>>

RichRows ==
  {<<trip, ts>> \o [i \in DOMAIN SensorCols |-> SensorCell(SensorCols[i], kinds[i], v)] :
     trip \in {Empty, <<"str", "A">>},
     ts \in {<<"str", "bad">>, <<"ts", 0>>},
     kinds \in [DOMAIN SensorCols -> {"null", "in", "out"}],
     v \in {0, 1}}

AliasPool ==
  {<<<<"str", "A">>, <<"ts", 0>>, <<50>>, <<400>>, <<"str", "x">>>>,
   <<<<"str", "A">>, <<"ts", 600>>, <<251>>, <<1001>>, Empty>>,
   <<Empty, Empty, <<50>>, Empty, Empty>>,
   <<<<"str", "A">>, Empty, <<50>>, <<400>>, Empty>>}

DupPool == {<<<<"str", "A">>, <<"ts", 0>>, <<50>>, <<60>>>>}

TripPool ==
  {<<<<"str", "A">>, <<10>>, <<5>>, <<30>>, <<60>>>>,
   <<<<"str", "A">>, <<20>>, <<8>>, <<40>>, <<70>>>>,
   <<<<9>>, <<15>>, <<6>>, <<35>>, <<65>>>>,
   <<Empty, <<10>>, <<5>>, <<30>>, <<60>>>>}

TripAliasPool ==
  {<<<<"str", "A">>, <<30>>, <<90>>>>,
   <<Empty, <<30>>, <<90>>>>}

NoTripPool == {<<<<5>>, <<30>>>>}

SeqsUpTo(S, n) == UNION {[1..k -> S] : k \in 1..n}

Files(header, pool, n) == {[header |-> header, rows |-> rows] : rows \in SeqsUpTo(pool, n)}

Inputs ==
  Files(HdrRaw, RawPool, MaxRows)
    \cup {[header |-> HdrRaw, rows |-> <<r>>] : r \in RichRows}
    \cup Files(HdrAlias, AliasPool, MaxRows)
    \cup Files(HdrDup, DupPool, MaxRows)
    \cup Files(HdrTrip, TripPool, MaxRows)
    \cup Files(HdrTripAlias, TripAliasPool, MaxRows)
    \cup Files(HdrNoTrip, NoTripPool, MaxRows)

\* ----------------------------------------------------------- state machine
\* The output directory as an earlier run of the time-series path left it.
PriorOutputs == [cleaned |-> PriorFile, rejected |-> PriorFile, metrics |-> PriorFile]

Memory ==
  <<reader, first_chunk, IS_TRIP_LEVEL, chunks, chunk, total_rows_read,
    validated_rows, rejected_rows, cleaned_df, rejected_df, final_metrics_df>>

FreshMemory ==
  /\ reader = 0
  /\ first_chunk = EmptyFrame
  /\ IS_TRIP_LEVEL = FALSE
  /\ chunks = <<>>
  /\ chunk = EmptyFrame
  /\ total_rows_read = 0
  /\ validated_rows = <<>>
  /\ rejected_rows = <<>>
  /\ cleaned_df = EmptyFrame
  /\ rejected_df = EmptyFrame
  /\ final_metrics_df = EmptyFrame

Init ==
  /\ csv \in Inputs
  /\ CHUNK_SIZE \in 1..Len(csv.rows)
  /\ disk = PriorOutputs
  /\ pc = "start"
  /\ FreshMemory

\* The process ends without finishing: an exception, or an interruption.
\* Its memory is gone; the output directory stays as it is.
Die ==
  /\ pc' = "aborted"
  /\ reader' = 0
  /\ first_chunk' = EmptyFrame
  /\ IS_TRIP_LEVEL' = FALSE
  /\ chunks' = <<>>
  /\ chunk' = EmptyFrame
  /\ total_rows_read' = 0
  /\ validated_rows' = <<>>
  /\ rejected_rows' = <<>>
  /\ cleaned_df' = EmptyFrame
  /\ rejected_df' = EmptyFrame
  /\ final_metrics_df' = EmptyFrame
  /\ UNCHANGED <<csv, CHUNK_SIZE, disk>>

\* Lines 89-93.
ReadFirstChunk ==
  /\ pc = "start"
  /\ first_chunk' = normalize_columns(read_chunk(csv, 0, CHUNK_SIZE))
  /\ reader' = Min2(CHUNK_SIZE, Len(csv.rows))
  /\ IS_TRIP_LEVEL' = is_trip_level_schema(first_chunk')
  /\ pc' = IF IS_TRIP_LEVEL' THEN "trip_level" ELSE "time_series"
  /\ UNCHANGED <<csv, CHUNK_SIZE, disk, chunks, chunk, total_rows_read, validated_rows,
                 rejected_rows, cleaned_df, rejected_df, final_metrics_df>>

\* Lines 98-117.
TripLevelPath ==
  /\ pc = "trip_level"
  /\ IF TripLevelRaises(first_chunk.columns)
     THEN Die
     ELSE /\ cleaned_df' = TripLevelFrame(first_chunk, read_rest(csv, reader, CHUNK_SIZE))
          /\ final_metrics_df' = TripLevelMetrics(cleaned_df')
          /\ reader' = Len(csv.rows)
          /\ pc' = "trip_level_write_metrics"
          /\ UNCHANGED <<csv, CHUNK_SIZE, disk, first_chunk, IS_TRIP_LEVEL, chunks, chunk,
                         total_rows_read, validated_rows, rejected_rows, rejected_df>>

\* Line 119.
TripLevelWriteMetrics ==
  /\ pc = "trip_level_write_metrics"
  /\ disk' = [disk EXCEPT !.metrics = to_csv(final_metrics_df)]
  /\ pc' = "trip_level_write_cleaned"
  /\ UNCHANGED <<csv, CHUNK_SIZE>>
  /\ UNCHANGED Memory

\* Lines 120-126.
TripLevelWriteCleaned ==
  /\ pc = "trip_level_write_cleaned"
  /\ disk' = [disk EXCEPT !.cleaned = to_csv(cleaned_df)]
  /\ pc' = "done"
  /\ UNCHANGED <<csv, CHUNK_SIZE>>
  /\ UNCHANGED Memory

\* Lines 131-135.
ReadRest ==
  /\ pc = "time_series"
  /\ chunks' = <<first_chunk>> \o read_rest(csv, reader, CHUNK_SIZE)
  /\ reader' = Len(csv.rows)
  /\ pc' = "loop"
  /\ UNCHANGED <<csv, CHUNK_SIZE, disk, first_chunk, IS_TRIP_LEVEL, chunk, total_rows_read,
                 validated_rows, rejected_rows, cleaned_df, rejected_df, final_metrics_df>>

\* Lines 137-178: one iteration of the chunk loop.
ProcessChunk ==
  /\ pc = "loop"
  /\ Len(validated_rows) < Len(chunks)
  /\ LET next == chunks[Len(validated_rows) + 1]
     IN IF ChunkRaises(next)
        THEN Die
        ELSE /\ total_rows_read' = total_rows_read + Len(next.rows)
             /\ chunk' = ValidateChunk(next)
             /\ validated_rows' = Append(validated_rows, ValidPart(chunk'))
             /\ rejected_rows' = Append(rejected_rows, RejectedPart(chunk'))
             /\ UNCHANGED <<csv, CHUNK_SIZE, disk, pc, reader, first_chunk, IS_TRIP_LEVEL,
                            chunks, cleaned_df, rejected_df, final_metrics_df>>

\* Lines 183-184.
Concatenate ==
  /\ pc = "loop"
  /\ Len(validated_rows) = Len(chunks)
  /\ cleaned_df' = concat(validated_rows)
  /\ rejected_df' = concat(rejected_rows)
  /\ pc' = "aggregate"
  /\ UNCHANGED <<csv, CHUNK_SIZE, disk, reader, first_chunk, IS_TRIP_LEVEL, chunks, chunk,
                 total_rows_read, validated_rows, rejected_rows, final_metrics_df>>

\* Lines 189-215.
ComputeMetrics ==
  /\ pc = "aggregate"
  /\ final_metrics_df' = MetricsFrame(Aggregate(cleaned_df))
  /\ pc' = "write_cleaned"
  /\ UNCHANGED <<csv, CHUNK_SIZE, disk, reader, first_chunk, IS_TRIP_LEVEL, chunks, chunk,
                 total_rows_read, validated_rows, rejected_rows, cleaned_df, rejected_df>>

\* Line 220.
WriteCleaned ==
  /\ pc = "write_cleaned"
  /\ disk' = [disk EXCEPT !.cleaned = to_csv(cleaned_df)]
  /\ pc' = "write_rejected"
  /\ UNCHANGED <<csv, CHUNK_SIZE>>
  /\ UNCHANGED Memory

\* Line 221.
WriteRejected ==
  /\ pc = "write_rejected"
  /\ disk' = [disk EXCEPT !.rejected = to_csv(rejected_df)]
  /\ pc' = "write_metrics"
  /\ UNCHANGED <<csv, CHUNK_SIZE>>
  /\ UNCHANGED Memory

\* Lines 222-228.
WriteMetrics ==
  /\ pc = "write_metrics"
  /\ disk' = [disk EXCEPT !.metrics = to_csv(final_metrics_df)]
  /\ pc' = "done"
  /\ UNCHANGED <<csv, CHUNK_SIZE>>
  /\ UNCHANGED Memory

\* The process is interrupted before it has finished.
Interrupt ==
  /\ pc \notin {"done", "aborted"}
  /\ Die

Next ==
  \/ ReadFirstChunk
  \/ TripLevelPath
  \/ TripLevelWriteMetrics
  \/ TripLevelWriteCleaned
  \/ ReadRest
  \/ ProcessChunk
  \/ Concatenate
  \/ ComputeMetrics
  \/ WriteCleaned
  \/ WriteRejected
  \/ WriteMetrics
  \/ Interrupt

Spec == Init /\ [][Next]_vars

\* ------------------------------------------------------- header resolution
\* resolve_columns on its own, on every arrangement of up to MaxHeaders
\* distinct normalized headers.
HeaderVocabulary ==
  {"trip_id", "tripid", "speed", "vehicle_speed", "speed_kmph", "time", "note"}

HeaderRows ==
  {h \in SeqsUpTo(HeaderVocabulary, MaxHeaders) : ~HasDuplicates(h)}

InitResolve ==
  /\ csv \in {[header |-> h, rows |-> <<>>] : h \in HeaderRows}
  /\ CHUNK_SIZE = 1
  /\ disk = PriorOutputs
  /\ pc = "resolve"
  /\ FreshMemory

\* Lines 53-60 applied to a frame with the headers of csv.
ResolveHeaders ==
  /\ pc = "resolve"
  /\ chunk' = [columns |-> ResolvedColumns(csv.header), index |-> <<>>, rows |-> <<>>]
  /\ pc' = "resolved"
  /\ UNCHANGED <<csv, CHUNK_SIZE, disk, reader, first_chunk, IS_TRIP_LEVEL, chunks,
                 total_rows_read, validated_rows, rejected_rows, cleaned_df, rejected_df,
                 final_metrics_df>>

SpecResolve == InitResolve /\ [][ResolveHeaders]_vars

\* ------------------------------------------------------------------ claims
\* The canonical labels of the input's columns, by position.
InputColumns ==
  ResolvedColumns([i \in DOMAIN csv.header |-> StripLower(csv.header[i])])

\* The cell of the input row labelled p (0-based) under the canonical
\* column c, cols being InputColumns; an absent column holds nothing.
InputCell(cols, p, c) ==
  IF c \in Range(cols) THEN csv.rows[p + 1][PosOf(cols, c)] ELSE Empty

IsNumeral(cell) == Len(cell) = 1

InRange(col, cell) ==
  IsNumeral(cell) /\ VALID_RANGES[col][1] <= cell[1] /\ cell[1] <= VALID_RANGES[col][2]

WellFormedTime(cell) == Len(cell) = 2 /\ cell[1] = "ts"

Sensors == Range(SensorCols)

\* The time-series path has classified at least one chunk.
ChunkClassified == pc \in {"loop", "aggregate", "write_cleaned", "write_rejected",
                            "write_metrics", "done"} /\ validated_rows # <<>>

\* C1: on the time-series path every row of the chunk just classified is
\* rejected, and routed to the rejected subset, exactly when its trip_id cell
\* is empty, or its timestamp is not a well-formed time, or none of its six
\* sensor cells is a number within its range; and exactly when its
\* rejection_reasons is not empty.
RejectedIffHardReason ==
  ChunkClassified =>
    LET cols == InputColumns
    IN \A k \in DOMAIN chunk.rows :
      LET p        == chunk.index[k]
          rejected == chunk.rows[k]["validation_status"] = "rejected"
          reason   == \/ InputCell(cols, p, "trip_id") = Empty
                      \/ ~WellFormedTime(InputCell(cols, p, "timestamp"))
                      \/ \A c \in Sensors : ~InRange(c, InputCell(cols, p, c))
          last     == Len(validated_rows)
      IN /\ chunk.rows[k]["validation_status"] \in {"valid", "rejected"}
         /\ rejected <=> reason
         /\ rejected <=> chunk.rows[k]["rejection_reasons"] # ""
         /\ rejected <=> p \in Range(rejected_rows[last].index)
         /\ ~rejected <=> p \in Range(validated_rows[last].index)

\* C1 witness: a classified chunk holds a valid row and a row rejected only
\* because salvage emptied its last numeric sensor cells.
RejectedBySalvageReached ==
  /\ ChunkClassified
  /\ \E k \in DOMAIN chunk.rows : chunk.rows[k]["validation_status"] = "valid"
  /\ \E k \in DOMAIN chunk.rows :
       /\ chunk.rows[k]["rejection_reasons"] = "|all_sensors_invalid"
       /\ \E c \in Sensors : IsNumeral(InputCell(InputColumns, chunk.index[k], c))

\* The metrics in memory are those of the time-series path.
MetricsComputed ==
  ~IS_TRIP_LEVEL /\ pc \in {"write_cleaned", "write_rejected", "write_metrics", "done"}

\* C2: after every run that completes, the trip metrics file has the columns
\* trip_id, duration_minutes, avg_speed, distance_km and max_speed.
MetricsContractColumns ==
  pc = "done" =>
    {"trip_id", "duration_minutes", "avg_speed", "distance_km", "max_speed"}
      \subseteq Range(disk.metrics.header)

Arrangements(h) ==
  {q \in [DOMAIN h -> Range(h)] : \A i, j \in DOMAIN h : q[i] = q[j] => i = j}

\* C3: every reordering of the headers resolves each header to the name it
\* resolved to in the order given.
ResolutionIgnoresOrder ==
  pc = "resolved" =>
    \A q \in Arrangements(csv.header) :
      \A i \in DOMAIN csv.header :
        RenameMap(q)[csv.header[i]] = chunk.columns[i]

\* C4: on the trip-level path the metrics file holds one row per distinct
\* non-empty trip_id of the input, and no trip_id twice.
OneMetricsRowPerTrip ==
  (pc = "done" /\ IS_TRIP_LEVEL) =>
    LET ids  == [k \in DOMAIN disk.metrics.rows |-> disk.metrics.rows[k][1]]
        cols == InputColumns
    IN /\ ~HasDuplicates(ids)
       /\ Range(ids) = {InputCell(cols, p - 1, "trip_id") : p \in DOMAIN csv.rows} \ {Empty}

\* The (time, speed) samples of the cleaned rows of one trip, by time.
TripSamples(trip_id) ==
  LET g == SelectSeq(cleaned_df.rows, LAMBDA r : r["trip_id"] = trip_id)
  IN SortSeq([i \in DOMAIN g |-> <<g[i]["timestamp"][1], g[i]["speed_kmph"]>>],
             LAMBDA a, b : a[1] < b[1])

ScenarioTrip(m) == TripSamples(m["trip_id"]) = <<<<0, <<50>>>>, <<600, <<60>>>>>>

\* C5 as stated: a trip whose valid samples are (0 s, 50) and (600 s, 60) has
\* distance_km = 50 * 600 / 3600: the interval is weighted by the earlier speed.
DistanceWeightsEarlierSample ==
  MetricsComputed =>
    \A k \in DOMAIN final_metrics_df.rows :
      LET m == final_metrics_df.rows[k]
      IN ScenarioTrip(m) => m["distance_km"][2] * 3600 = (50 * 600) * m["distance_km"][3]

\* C5 amended: a trip whose valid samples are (0 s, 50) and (600 s, 60) has
\* distance_km = 60 * 600 / 3600 = 10: the interval is weighted by the speed
\* of the later sample of the pair.
DistanceWeightsLaterSample ==
  MetricsComputed =>
    \A k \in DOMAIN final_metrics_df.rows :
      LET m == final_metrics_df.rows[k]
      IN ScenarioTrip(m) => m["distance_km"][2] * 3600 = (60 * 600) * m["distance_km"][3]

\* C5 witness: the metrics hold a trip with exactly the scenario's samples.
ScenarioTripReached ==
  MetricsComputed /\ \E k \in DOMAIN final_metrics_df.rows : ScenarioTrip(final_metrics_df.rows[k])

StrictlyIncreasing(s) == \A i, j \in DOMAIN s : i < j => s[i] < s[j]

\* The rows of the frames, looked up by their labels taken in ascending order.
InArrivalOrder(frames, df) ==
  LET labels == UNION {Range(frames[i].index) : i \in DOMAIN frames}
      row(p) == LET i == CHOOSE i \in DOMAIN frames : p \in Range(frames[i].index)
                IN frames[i].rows[PosOf(frames[i].index, p)]
  IN /\ Len(df.rows) = Cardinality(labels)
     /\ \A n \in DOMAIN df.rows :
          \E p \in labels : Cardinality({x \in labels : x < p}) = n - 1 /\ df.rows[n] = row(p)

\* C6: every row of every chunk is in exactly one of the valid and the
\* rejected subset, so the two counts add up to the chunk's; and the cleaned
\* and rejected datasets hold their rows in the order the rows arrived.
NoRowDropped ==
  /\ \A i \in DOMAIN validated_rows :
       /\ Len(validated_rows[i].rows) + Len(rejected_rows[i].rows) = Len(chunks[i].rows)
       /\ Range(validated_rows[i].index) \cup Range(rejected_rows[i].index)
            = Range(chunks[i].index)
       /\ Range(validated_rows[i].index) \cap Range(rejected_rows[i].index) = {}
       /\ StrictlyIncreasing(validated_rows[i].index)
       /\ StrictlyIncreasing(rejected_rows[i].index)
  /\ (~IS_TRIP_LEVEL /\ pc \in {"aggregate", "write_cleaned", "write_rejected",
                                "write_metrics", "done"}) =>
       /\ Len(cleaned_df.rows) + Len(rejected_df.rows) = Len(csv.rows)
       /\ InArrivalOrder(validated_rows, cleaned_df)
       /\ InArrivalOrder(rejected_rows, rejected_df)

\* C6 witness: the datasets are built from several chunks, one of which held
\* both a valid and a rejected row, and a rejected row arrived before a valid one.
MixedChunksConcatenated ==
  /\ pc = "aggregate"
  /\ Len(chunks) > 1
  /\ \E i \in DOMAIN chunks : validated_rows[i].rows # <<>> /\ rejected_rows[i].rows # <<>>
  /\ \E i, j \in DOMAIN chunks : i < j /\ rejected_rows[i].rows # <<>> /\ validated_rows[j].rows # <<>>

\* C7: the three output files are all those of the earlier run or all those
\* of this run, in every state.
OutputsAllOrNothing ==
  \/ \A f \in {"cleaned", "rejected", "metrics"} : disk[f].run = "prior"
  \/ \A f \in {"cleaned", "rejected", "metrics"} : disk[f].run = "current"

\* The three files the time-series path writes for the input file read in
\* chunks of the given size.
TimeSeriesOutputs(file, size) ==
  LET read    == read_rest(file, 0, size)
      done    == [i \in DOMAIN read |-> ValidateChunk(read[i])]
      cleaned == concat([i \in DOMAIN read |-> ValidPart(done[i])])
  IN [cleaned  |-> to_csv(cleaned),
      rejected |-> to_csv(concat([i \in DOMAIN read |-> RejectedPart(done[i])])),
      metrics  |-> to_csv(MetricsFrame(Aggregate(cleaned)))]

\* C8: the files a completed time-series run wrote are those any other chunk
\* size gives for the same input, values and row order alike.
ChunkSizeIrrelevant ==
  (pc = "done" /\ ~IS_TRIP_LEVEL) =>
    \A size \in 1..Len(csv.rows) : TimeSeriesOutputs(csv, size) = disk

\* The tags of the sensor cells of row p that are numbers outside their range.
RECURSIVE ExpectedNotes(_, _, _)
ExpectedNotes(cols, p, i) ==
  IF i = 0 THEN ""
  ELSE LET col  == SensorCols[i]
           cell == InputCell(cols, p, col)
       IN ExpectedNotes(cols, p, i - 1)
            \o (IF IsNumeral(cell) /\ ~InRange(col, cell)
                THEN "|" \o col \o "_out_of_range" ELSE "")

\* C9: salvage_notes holds the tag of a sensor field exactly when the field's
\* cell was a number outside its range, whose stored value is then null; a
\* number within the range, bounds included, is stored as it is; an absent,
\* empty or non-numeric cell gets no tag.
OutOfRangeTagIffOutside ==
  ChunkClassified =>
    LET cols == InputColumns
    IN \A k \in DOMAIN chunk.rows :
      /\ chunk.rows[k]["salvage_notes"] = ExpectedNotes(cols, chunk.index[k], Len(SensorCols))
      /\ \A c \in Sensors :
           chunk.rows[k][c] = IF InRange(c, InputCell(cols, chunk.index[k], c))
                              THEN InputCell(cols, chunk.index[k], c) ELSE NaN

\* The number of deltas above the threshold between consecutive samples.
GapsOf(samples) ==
  Cardinality({i \in 2..Len(samples) : samples[i][1] - samples[i - 1][1] > GAP_THRESHOLD_SEC})

\* C10: the gap_count of every trip of the time-series metrics is the number
\* of deltas between consecutive samples of the trip, taken by ascending
\* time, that are strictly greater than the gap threshold.
GapCountCountsLongDeltas ==
  MetricsComputed =>
    \A k \in DOMAIN final_metrics_df.rows :
      LET m == final_metrics_df.rows[k]
      IN m["gap_count"] = <<GapsOf(TripSamples(m["trip_id"]))>>

\* C10 witness: a trip has a delta equal to the threshold, which is not
\* counted, and a longer one, which is.
ThresholdDeltaReached ==
  /\ MetricsComputed
  /\ \E k \in DOMAIN final_metrics_df.rows :
       LET s == TripSamples(final_metrics_df.rows[k]["trip_id"])
       IN /\ \E i \in 2..Len(s) : s[i][1] - s[i - 1][1] = GAP_THRESHOLD_SEC
          /\ \E i \in 2..Len(s) : s[i][1] - s[i - 1][1] > GAP_THRESHOLD_SEC
          /\ final_metrics_df.rows[k]["gap_count"] = <<1>>

====
